---- MODULE Spec2Model ----
(***************************************************************************)
(* Tab Copy: the format registry (format.ts) and the render pipeline that  *)
(* walks windows and tabs and concatenates the callbacks' output.          *)
(*                                                                         *)
(* A text is a sequence of one-character strings, so that concatenation,   *)
(* escaping and parsing are computed character by character.               *)
(***************************************************************************)
EXTENDS Integers, Sequences, FiniteSets, TLC

\* one copy action
VARIABLES id, opts, scopeType, wins, pc, format, text, calls, outputs, html, htmlCalls

\* the options page (Options.tsx), the persisted formats it reads, and its
\* asynchronous calls in flight
VARIABLES configuredFormats, optsEditFormatId, editError, mounted,
          storage, reads, deleting, console, descriptions

copyVars ==
  <<id, opts, scopeType, wins, pc, format, text, calls, outputs, html, htmlCalls>>

optionsVars ==
  <<configuredFormats, optsEditFormatId, editError, mounted, storage, reads, deleting,
    console, descriptions>>

vars == <<copyVars, optionsVars>>

(***************************************************************************)
(* Bounds of the model                                                     *)
(***************************************************************************)
MaxWindows == 2
MaxTabs == 2

(***************************************************************************)
(* JavaScript values                                                       *)
(***************************************************************************)
\* the value `undefined` of a string-valued (or list-valued) field: a
\* one-element sequence whose element is not a character
undefined == <<"UNDEFINED">>

\* truthiness of a string-valued field: neither undefined nor ''
Truthy(s) == s # undefined /\ s # <<>>

\* `${v}` of a template literal
TemplateString(v) ==
  IF v = undefined THEN <<"u","n","d","e","f","i","n","e","d">> ELSE v

Digits == <<"0","1","2","3","4","5","6","7","8","9">>

RECURSIVE NumberToString(_)
\* `${n}` for a non-negative integer
NumberToString(n) ==
  IF n < 10 THEN <<Digits[n + 1]>>
  ELSE NumberToString(n \div 10) \o <<Digits[(n % 10) + 1]>>

RECURSIVE Flatten(_)
\* the concatenation of the texts of ss, by halves
Flatten(ss) ==
  IF Len(ss) = 0 THEN <<>>
  ELSE IF Len(ss) = 1 THEN ss[1]
  ELSE LET m == Len(ss) \div 2
       IN Flatten(SubSeq(ss, 1, m)) \o Flatten(SubSeq(ss, m + 1, Len(ss)))

\* the number of elements of s that are in the set cs
Count(s, cs) == Cardinality({i \in 1..Len(s) : s[i] \in cs})

\* ' '.repeat(n)
Spaces(n) == [i \in 1..n |-> " "]

Min(a, b) == IF a < b THEN a ELSE b

\* String.prototype.startsWith
StartsWith(s, p) == Len(s) >= Len(p) /\ SubSeq(s, 1, Len(p)) = p

\* s.replace(/c/g, r) for a single character c
ReplaceAll(s, c, r) ==
  Flatten([i \in 1..Len(s) |-> IF s[i] = c THEN r ELSE <<s[i]>>])

(***************************************************************************)
(* Constants of format.ts                                                  *)
(***************************************************************************)
MIN_VISIBLE_FORMAT_COUNT == 3

DEFAULT_TITLE_URL_1_LINE_SEPARATOR == <<":"," ">>

DEFAULT_INDENT_SIZE == 3

(***************************************************************************)
(* Helpers imported by format.ts from '@/intl' and '@/util/string'         *)
(***************************************************************************)
intl_window == <<"w","i","n","d","o","w">>

UpperCase(c) == IF c = "w" THEN "W" ELSE c

\* first letter in upper case
sentenceCase(s) == IF s = <<>> THEN <<>> ELSE <<UpperCase(Head(s))>> \o Tail(s)

\* every line of s prefixed by n spaces
indent(s, n) ==
  Spaces(n) \o ReplaceAll(s, "\n", <<"\n">> \o Spaces(n))

\* the characters & < > " replaced by their entities
encodeHtml(s) ==
  ReplaceAll(ReplaceAll(ReplaceAll(ReplaceAll(s,
    "&", <<"&","a","m","p",";">>),
    "<", <<"&","l","t",";">>),
    ">", <<"&","g","t",";">>),
    "\"", <<"&","q","u","o","t",";">>)

(***************************************************************************)
(* stringifyCSVRow, imported from '@/util/csv': RFC 4180 field quoting     *)
(***************************************************************************)
null == <<"NULL">>

csvField(v) ==
  IF v = null THEN <<>>
  ELSE IF Count(v, {",", "\"", "\n", "\r"}) > 0
       THEN <<"\"">> \o ReplaceAll(v, "\"", <<"\"","\"">>) \o <<"\"">>
       ELSE v

RECURSIVE stringifyCSVRow(_)
stringifyCSVRow(row) ==
  IF row = <<>> THEN <<>>
  ELSE IF Len(row) = 1 THEN csvField(row[1])
  ELSE csvField(Head(row)) \o <<",">> \o stringifyCSVRow(Tail(row))

(***************************************************************************)
(* JSON.stringify(value, undefined, space) and parseInt(string, 10)        *)
(***************************************************************************)
jsonEscape(s) ==
  Flatten([i \in 1..Len(s) |->
    CASE s[i] = "\"" -> <<"\\","\"">>
      [] s[i] = "\\" -> <<"\\","\\">>
      [] s[i] = "\n" -> <<"\\","n">>
      [] OTHER -> <<s[i]>>])

jsonQuote(s) == <<"\"">> \o jsonEscape(s) \o <<"\"">>

\* a property of an object literal: its key and either a string value or the
\* empty array
StringProp(k, v) == [key |-> k, isArray |-> FALSE, value |-> v]
EmptyArrayProp(k) == [key |-> k, isArray |-> TRUE, value |-> <<>>]

jsonValue(p) == IF p.isArray THEN <<"[","]">> ELSE jsonQuote(p.value)

RECURSIVE jsonMembers(_,_,_)
\* the members of an object, each on its own line after `gap` when gap # ''
jsonMembers(props, gap, first) ==
  IF props = <<>> THEN <<>>
  ELSE (IF first THEN <<>> ELSE <<",">>)
       \o (IF gap = <<>> THEN <<>> ELSE <<"\n">> \o gap)
       \o jsonQuote(Head(props).key) \o <<":">>
       \o (IF gap = <<>> THEN <<>> ELSE <<" ">>)
       \o jsonValue(Head(props))
       \o jsonMembers(Tail(props), gap, FALSE)

\* JSON.stringify of an object whose properties are props, in order; the
\* indentation is min(space, 10) spaces, none when space < 1
JSON_stringify(props, space) ==
  LET gap == Spaces(Min(space, 10))
  IN IF props = <<>> THEN <<"{","}">>
     ELSE <<"{">> \o jsonMembers(props, gap, TRUE)
          \o (IF gap = <<>> THEN <<>> ELSE <<"\n">>) \o <<"}">>

NaN == [nan |-> TRUE, val |-> 0]

WhiteSpace == {" ", "\n", "\t", "\r"}

DigitValue(c) == CHOOSE d \in 0..9 : Digits[d + 1] = c

IsDigit(c) == \E d \in 1..10 : Digits[d] = c

RECURSIVE parseDigits(_,_)
\* the value of the longest prefix of digits of s, after acc
parseDigits(s, acc) ==
  IF s = <<>> \/ ~IsDigit(Head(s)) THEN acc
  ELSE parseDigits(Tail(s), acc * 10 + DigitValue(Head(s)))

RECURSIVE parseInt(_)
\* parseInt(s, 10): leading white space skipped, an optional sign, then the
\* longest prefix of digits; NaN when there is none (also for undefined)
parseInt(s) ==
  IF s = undefined \/ s = <<>> THEN NaN
  ELSE IF Head(s) \in WhiteSpace THEN parseInt(Tail(s))
  ELSE LET neg == Head(s) = "-"
           body == IF Head(s) \in {"-", "+"} THEN Tail(s) ELSE s
       IN IF body = <<>> \/ ~IsDigit(Head(body)) THEN NaN
          ELSE [nan |-> FALSE,
                val |-> IF neg THEN 0 - parseDigits(body, 0) ELSE parseDigits(body, 0)]

(***************************************************************************)
(* Tabs and options                                                        *)
(***************************************************************************)
\* chrome.tabs.Tab, the fields the formats read
Tab(title, url, favIconUrl) == [title |-> title, url |-> url, favIconUrl |-> favIconUrl]

\* the opts argument of label/transforms: `isUndefined` for opts === undefined;
\* a field that is absent is undefined, and `pretty` absent is FALSE (only its
\* truthiness is read)
Opts(separator, pretty, indentOpt, properties) ==
  [isUndefined |-> FALSE, separator |-> separator, pretty |-> pretty,
   indent |-> indentOpt, properties |-> properties]

OptsUndefined ==
  [isUndefined |-> TRUE, separator |-> undefined, pretty |-> FALSE,
   indent |-> undefined, properties |-> undefined]

(***************************************************************************)
(* Helpers of format.ts                                                    *)
(***************************************************************************)
getNumberedWindowText(seq) ==
  sentenceCase(intl_window) \o <<" ">> \o NumberToString(seq)

Untitled == <<"(","u","n","t","i","t","l","e","d",")">>

getTitleUrlText(url, title, separator) ==
  (IF Truthy(title) THEN title ELSE Untitled)
  \o (IF separator = undefined THEN DEFAULT_TITLE_URL_1_LINE_SEPARATOR ELSE separator)
  \o url

\* the earlier revision of the file: the title defaults only when undefined
getTitleUrlText_part002(url, title, separator) ==
  (IF title = undefined THEN Untitled ELSE title)
  \o (IF separator = undefined THEN DEFAULT_TITLE_URL_1_LINE_SEPARATOR ELSE separator)
  \o url

getAnchorTagHtml(tab) ==
  IF Truthy(tab.url)
  THEN <<"<","a"," ","h","r","e","f","=","\"">> \o tab.url \o <<"\"",">">>
       \o encodeHtml(IF Truthy(tab.title) THEN tab.title ELSE tab.url)
       \o <<"<","/","a",">">>
  ELSE <<>>

(***************************************************************************)
(* urlTextTransform, the text transform of `link` and `url`                *)
(***************************************************************************)
urlTextTransform_windowStart(seq) == getNumberedWindowText(seq) \o <<"\n","\n">>

urlTextTransform_tab(tab) == tab.url

urlTextTransform_tabDelimiter == <<"\n">>

\* a mutant of the window delimiter: a single newline
urlTextTransform_windowDelimiter_single == <<"\n">>

urlTextTransform_windowDelimiter == <<"\n","\n">>

(***************************************************************************)
(* transforms().html of `link`                                             *)
(***************************************************************************)
link_html_windowStart(seq) ==
  getNumberedWindowText(seq) \o <<"<","b","r",">","\n","<","b","r",">","\n">>

link_html_tab(tab) == getAnchorTagHtml(tab)

link_html_tabDelimiter == <<"<","b","r",">","\n">>

link_html_windowDelimiter == <<"<","b","r",">","\n","<","b","r",">","\n">>

(***************************************************************************)
(* builtinFormats: the text transforms                                     *)
(***************************************************************************)
titleUrl1Line_windowStart(seq) == getNumberedWindowText(seq) \o <<"\n","\n">>

titleUrl1Line_tab(o, tab) ==
  getTitleUrlText(tab.url, tab.title, IF o.isUndefined THEN undefined ELSE o.separator)

titleUrl2Line_windowStart(seq) == getNumberedWindowText(seq) \o <<"\n","\n">>

titleUrl2Line_tab(tab) == getTitleUrlText(tab.url, tab.title, <<"\n">>)

title_windowStart(seq) == getNumberedWindowText(seq) \o <<"\n","\n">>

title_tab(tab) == IF Truthy(tab.title) THEN tab.title ELSE tab.url

markdown_windowStart(seq) ==
  <<"#","#"," ">> \o getNumberedWindowText(seq) \o <<"\n","\n">>

\* a mutant of the tab callback: the closing bracket of the title is not escaped
markdown_tab_closingBracket(tab) ==
  <<"[">>
  \o ReplaceAll(IF Truthy(tab.title) THEN tab.title ELSE tab.url, "[", <<"\\","[">>)
  \o <<"]","(">>
  \o ReplaceAll(ReplaceAll(tab.url, "(", <<"\\","(">>), ")", <<"\\",")">>)
  \o <<")">>

markdown_tab(tab) ==
  <<"[">>
  \o ReplaceAll(ReplaceAll(IF Truthy(tab.title) THEN tab.title ELSE tab.url,
                           "[", <<"\\","[">>),
                "]", <<"\\","]">>)
  \o <<"]","(">>
  \o ReplaceAll(ReplaceAll(tab.url, "(", <<"\\","(">>), ")", <<"\\",")">>)
  \o <<")">>

bbcode_windowStart(seq) == getNumberedWindowText(seq) \o <<"\n","\n">>

bbcode_tab(tab) ==
  IF Truthy(tab.title)
  THEN <<"[","u","r","l","=">> \o TemplateString(tab.url) \o <<"]">>
       \o tab.title \o <<"[","/","u","r","l","]">>
  ELSE <<"[","u","r","l","]">> \o TemplateString(tab.url) \o <<"[","/","u","r","l","]">>

\* a mutant of start: the header row is written also when there is no tab
csv_start_alwaysHeader(scope, tabCount) ==
  (IF scope = "window" THEN <<"W","i","n","d","o","w",",">> ELSE <<>>)
  \o <<"T","i","t","l","e",",","U","R","L","\n">>

csv_start(scope, tabCount) ==
  IF tabCount # 0
  THEN (IF scope = "window" THEN <<"W","i","n","d","o","w",",">> ELSE <<>>)
       \o <<"T","i","t","l","e",",","U","R","L","\n">>
  ELSE <<>>

\* windowSeq = 0 stands for a missing windowSeq (only its truthiness is read)
csv_tab(tab, windowSeq) ==
  stringifyCSVRow(
    (IF windowSeq # 0 THEN <<getNumberedWindowText(windowSeq)>> ELSE <<>>)
    \o <<IF Truthy(tab.title) THEN tab.title ELSE null, tab.url>>)

html_windowStart(seq) == intl_window \o <<" ">> \o NumberToString(seq)

html_tab(tab) ==
  IF Truthy(tab.title) THEN tab.title
  ELSE IF Truthy(tab.url) THEN tab.url ELSE <<>>

htmlTable_tab(tab) == getAnchorTagHtml(tab)

htmlTable_html_tab(tab) == getAnchorTagHtml(tab)

htmlTable_html_tabDelimiter == <<"<","b","r",">","\n">>

customFormat_tab(tab) ==
  TemplateString(tab.title) \o <<"\n">> \o TemplateString(tab.url)

(***************************************************************************)
(* builtinFormats[json]                                                    *)
(***************************************************************************)
json_pretty(o) == ~o.isUndefined /\ o.pretty

\* a mutant of newline: a line break also when pretty is off
json_newline_always(o) == <<"\n">>

json_newline(o) == IF json_pretty(o) THEN <<"\n">> ELSE <<>>

\* a mutant of indentSize: `configuredIndent || DEFAULT_INDENT_SIZE`, which
\* takes 0 for no number
json_indentSize_zeroIsDefault(o) ==
  IF json_pretty(o)
  THEN LET configuredIndent == parseInt(o.indent)
       IN IF ~configuredIndent.nan /\ configuredIndent.val # 0
          THEN configuredIndent.val ELSE DEFAULT_INDENT_SIZE
  ELSE 0

\* configuredIndent || configuredIndent === 0 is false for NaN only
json_indentSize(o) ==
  IF json_pretty(o)
  THEN LET configuredIndent == parseInt(o.indent)
       IN IF ~configuredIndent.nan THEN configuredIndent.val ELSE DEFAULT_INDENT_SIZE
  ELSE 0

json_noProperties(o) ==
  o.isUndefined \/ o.properties = undefined \/ Len(o.properties) = 0

Includes(list, x) == \E i \in 1..Len(list) : list[i] = x

json_selects(o, p) == json_noProperties(o) \/ Includes(o.properties, p)

\* the object literal of the tab callback: its properties, in order
json_tabObject(o, tab) ==
  (IF Truthy(tab.title) /\ json_selects(o, "title")
   THEN <<StringProp(<<"t","i","t","l","e">>, tab.title)>> ELSE <<>>)
  \o (IF Truthy(tab.url) /\ json_selects(o, "url")
      THEN <<StringProp(<<"u","r","l">>, tab.url)>> ELSE <<>>)
  \o (IF Truthy(tab.favIconUrl) /\ json_selects(o, "favIconUrl")
      THEN <<StringProp(<<"f","a","v","I","c","o","n","U","r","l">>, tab.favIconUrl)>>
      ELSE <<>>)

\* s.replace(/\[\][\s\n]*\}$/, '['): the leftmost `[]` that only white space
\* separates from a final `}` is replaced, with what follows it, by `[`
openTabsArray(s) ==
  LET n == Len(s)
      Matches(p) == /\ p + 2 <= n
                    /\ s[p] = "[" /\ s[p + 1] = "]" /\ s[n] = "}"
                    /\ \A q \in (p + 2)..(n - 1) : s[q] \in WhiteSpace
      ps == {p \in 1..n : Matches(p)}
  IN IF ps = {} THEN s
     ELSE LET p == CHOOSE q \in ps : \A r \in ps : q <= r
          IN SubSeq(s, 1, p - 1) \o <<"[">>

json_start == <<"[">>

json_windowStart(o, seq) ==
  json_newline(o)
  \o indent(
       openTabsArray(
         JSON_stringify(<<StringProp(<<"t","i","t","l","e">>, getNumberedWindowText(seq)),
                          EmptyArrayProp(<<"t","a","b","s">>)>>,
                        json_indentSize(o))),
       json_indentSize(o))

json_tab(o, tab, windowSeq) ==
  json_newline(o)
  \o indent(JSON_stringify(json_tabObject(o, tab), json_indentSize(o)),
            IF windowSeq # 0 THEN json_indentSize(o) * 3 ELSE json_indentSize(o))

json_tabDelimiter == <<",">>

\* a mutant of windowEnd: the window object is not closed
json_windowEnd_unclosed(o) ==
  json_newline(o) \o indent(<<"]">>, json_indentSize(o) * 2)

json_windowEnd(o) ==
  json_newline(o) \o indent(<<"]">>, json_indentSize(o) * 2)
  \o json_newline(o) \o indent(<<"}">>, json_indentSize(o))

json_windowDelimiter == <<",">>

json_end(o) == json_newline(o) \o <<"]">>

(***************************************************************************)
(* The registry                                                            *)
(***************************************************************************)
Format(fid, name, hasOpts) == [id |-> fid, name |-> name, hasOpts |-> hasOpts]

builtinFormats ==
  << Format(<<"l","i","n","k">>, "link", FALSE),
     Format(<<"u","r","l">>, "url", FALSE),
     Format(<<"t","i","t","l","e","U","r","l","1","L","i","n","e">>, "titleUrl1Line", TRUE),
     Format(<<"t","i","t","l","e","U","r","l","2","L","i","n","e">>, "titleUrl2Line", FALSE),
     Format(<<"t","i","t","l","e">>, "title", FALSE),
     Format(<<"m","a","r","k","d","o","w","n">>, "markdown", FALSE),
     Format(<<"b","b","c","o","d","e">>, "bbcode", FALSE),
     Format(<<"c","s","v">>, "csv", FALSE),
     Format(<<"j","s","o","n">>, "json", TRUE),
     Format(<<"h","t","m","l">>, "html", FALSE),
     Format(<<"h","t","m","l","T","a","b","l","e">>, "htmlTable", TRUE) >>

\* the custom format has no id of its own
customFormat == Format(undefined, "customFormat", TRUE)

\* what Array.prototype.find returns when no element matches
undefinedFormat == Format(undefined, "undefined", FALSE)

builtinFormatIds == [i \in 1..Len(builtinFormats) |-> builtinFormats[i].id]

\* a mutant of isCustomFormatId: the hyphen is not required
isCustomFormatId_noHyphen(fid) == StartsWith(fid, <<"c","u","s","t","o","m">>)

isCustomFormatId(fid) == StartsWith(fid, <<"c","u","s","t","o","m","-">>)

\* Array.prototype.find: the first element that matches, else undefined
find(fid) ==
  LET ms == {i \in 1..Len(builtinFormats) : builtinFormats[i].id = fid}
  IN IF ms = {} THEN undefinedFormat
     ELSE builtinFormats[CHOOSE i \in ms : \A j \in ms : i <= j]

getFormat(fid) == IF isCustomFormatId(fid) THEN customFormat ELSE find(fid)

builtinFormatWithOptsIds ==
  LET fs == SelectSeq(builtinFormats, LAMBDA f : f.hasOpts)
  IN [i \in 1..Len(fs) |-> fs[i].id]

\* Array.prototype.includes
isBuiltinFormatWithOptsId(fid) == Includes(builtinFormatWithOptsIds, fid)

isFormatWithOptsId(fid) == isBuiltinFormatWithOptsId(fid) \/ isCustomFormatId(fid)

(***************************************************************************)
(* transforms(opts).text of a format: which callbacks it declares, its     *)
(* delimiters (undefined when not declared), and the callbacks.  The html   *)
(* representation of a format that declares one is a TextTransform too; it *)
(* is looked up under the name <format>.html.                              *)
(***************************************************************************)
HasHtml(f) == f.name \in {"link", "htmlTable"}

HtmlOf(f) == [f EXCEPT !.name = IF f.name = "link" THEN "link.html" ELSE "htmlTable.html"]

TextCallbacks(f) ==
  CASE f.name \in {"link", "url", "titleUrl1Line", "titleUrl2Line", "title",
                   "markdown", "bbcode", "html"} -> {"windowStart", "tab"}
    [] f.name = "csv" -> {"start", "tab"}
    [] f.name = "json" -> {"start", "windowStart", "tab", "windowEnd", "end"}
    [] f.name \in {"htmlTable", "customFormat"} -> {"tab"}
    [] f.name = "link.html" -> {"windowStart", "tab"}
    [] f.name = "htmlTable.html" -> {"tab"}

text_tabDelimiter(f) ==
  CASE f.name \in {"link", "url"} -> urlTextTransform_tabDelimiter
    [] f.name \in {"titleUrl1Line", "title", "bbcode", "csv"} -> <<"\n">>
    [] f.name \in {"titleUrl2Line", "markdown"} -> <<"\n","\n">>
    [] f.name = "json" -> json_tabDelimiter
    [] f.name = "html" -> <<>>
    [] f.name = "htmlTable" -> <<"<","b","r",">","\n">>
    [] f.name = "customFormat" -> undefined
    [] f.name = "link.html" -> link_html_tabDelimiter
    [] f.name = "htmlTable.html" -> htmlTable_html_tabDelimiter

text_windowDelimiter(f) ==
  CASE f.name \in {"link", "url"} -> urlTextTransform_windowDelimiter
    [] f.name \in {"titleUrl1Line", "titleUrl2Line", "title", "markdown", "bbcode"}
         -> <<"\n","\n">>
    [] f.name = "csv" -> <<"\n">>
    [] f.name = "json" -> json_windowDelimiter
    [] f.name \in {"html", "htmlTable", "customFormat", "htmlTable.html"} -> undefined
    [] f.name = "link.html" -> link_html_windowDelimiter

text_start(f, o, scope, tabCount) ==
  CASE f.name = "csv" -> csv_start(scope, tabCount)
    [] f.name = "json" -> json_start

text_windowStart(f, o, seq) ==
  CASE f.name \in {"link", "url"} -> urlTextTransform_windowStart(seq)
    [] f.name = "titleUrl1Line" -> titleUrl1Line_windowStart(seq)
    [] f.name = "titleUrl2Line" -> titleUrl2Line_windowStart(seq)
    [] f.name = "title" -> title_windowStart(seq)
    [] f.name = "markdown" -> markdown_windowStart(seq)
    [] f.name = "bbcode" -> bbcode_windowStart(seq)
    [] f.name = "json" -> json_windowStart(o, seq)
    [] f.name = "html" -> html_windowStart(seq)
    [] f.name = "link.html" -> link_html_windowStart(seq)

text_tab(f, o, tab, windowSeq) ==
  CASE f.name \in {"link", "url"} -> urlTextTransform_tab(tab)
    [] f.name = "titleUrl1Line" -> titleUrl1Line_tab(o, tab)
    [] f.name = "titleUrl2Line" -> titleUrl2Line_tab(tab)
    [] f.name = "title" -> title_tab(tab)
    [] f.name = "markdown" -> markdown_tab(tab)
    [] f.name = "bbcode" -> bbcode_tab(tab)
    [] f.name = "csv" -> csv_tab(tab, windowSeq)
    [] f.name = "json" -> json_tab(o, tab, windowSeq)
    [] f.name = "html" -> html_tab(tab)
    [] f.name = "htmlTable" -> htmlTable_tab(tab)
    [] f.name = "customFormat" -> customFormat_tab(tab)
    [] f.name = "link.html" -> link_html_tab(tab)
    [] f.name = "htmlTable.html" -> htmlTable_html_tab(tab)

text_windowEnd(f, o, seq) ==
  CASE f.name = "json" -> json_windowEnd(o)

text_end(f, o) ==
  CASE f.name = "json" -> json_end(o)

(***************************************************************************)
(* The render pipeline: the fragments it emits, in order.  A fragment is   *)
(* the output of one callback or one inserted delimiter; `seq` is the      *)
(* window's sequence number (window callbacks) or globalSeq (tab).         *)
(***************************************************************************)
Frag(kind, seq, t) == [kind |-> kind, seq |-> seq, text |-> t]

\* an absent delimiter is the empty string
Delimiter(d) == IF d = undefined THEN <<>> ELSE d

\* window-level boundaries wrap each window of a `windows` scope
IncludesWindowBoundaries(scope) == scope = "windows"

RECURSIVE TabCount(_)
TabCount(ws) == IF ws = <<>> THEN 0 ELSE Len(Head(ws)) + TabCount(Tail(ws))

RECURSIVE renderTabs(_,_,_,_,_,_)
\* the tabs k..Len(tabs) of one window, joined by tabDelimiter
renderTabs(f, o, tabs, k, globalBase, windowSeq) ==
  IF k > Len(tabs) THEN <<>>
  ELSE (IF k > 1 THEN <<Frag("tabDelimiter", 0, Delimiter(text_tabDelimiter(f)))>>
        ELSE <<>>)
       \o (IF "tab" \in TextCallbacks(f)
           THEN <<Frag("tab", globalBase + k, text_tab(f, o, tabs[k], windowSeq))>>
           ELSE <<>>)
       \o renderTabs(f, o, tabs, k + 1, globalBase, windowSeq)

\* a mutant of the window block: a tabDelimiter also follows the last tab
renderWindow_trailingDelimiter(f, o, scope, tabs, seq, globalBase) ==
  (IF IncludesWindowBoundaries(scope) /\ "windowStart" \in TextCallbacks(f)
   THEN <<Frag("windowStart", seq, text_windowStart(f, o, seq))>> ELSE <<>>)
  \o renderTabs(f, o, tabs, 1, globalBase, seq)
  \o (IF tabs # <<>> THEN <<Frag("tabDelimiter", 0, Delimiter(text_tabDelimiter(f)))>>
      ELSE <<>>)
  \o (IF IncludesWindowBoundaries(scope) /\ "windowEnd" \in TextCallbacks(f)
      THEN <<Frag("windowEnd", seq, text_windowEnd(f, o, seq))>> ELSE <<>>)

\* one window block: windowStart, the tabs, windowEnd
renderWindow(f, o, scope, tabs, seq, globalBase) ==
  (IF IncludesWindowBoundaries(scope) /\ "windowStart" \in TextCallbacks(f)
   THEN <<Frag("windowStart", seq, text_windowStart(f, o, seq))>> ELSE <<>>)
  \o renderTabs(f, o, tabs, 1, globalBase, seq)
  \o (IF IncludesWindowBoundaries(scope) /\ "windowEnd" \in TextCallbacks(f)
      THEN <<Frag("windowEnd", seq, text_windowEnd(f, o, seq))>> ELSE <<>>)

RECURSIVE renderWindows(_,_,_,_,_,_)
\* the windows w..Len(ws), joined by windowDelimiter
renderWindows(f, o, scope, ws, w, globalBase) ==
  IF w > Len(ws) THEN <<>>
  ELSE (IF w > 1 THEN <<Frag("windowDelimiter", 0, Delimiter(text_windowDelimiter(f)))>>
        ELSE <<>>)
       \o renderWindow(f, o, scope, ws[w], w, globalBase)
       \o renderWindows(f, o, scope, ws, w + 1, globalBase + Len(ws[w]))

\* the text representation of format f for the scope
render(f, o, scope, ws) ==
  (IF scope \in {"windows", "window"} /\ "start" \in TextCallbacks(f)
   THEN <<Frag("start", 0, text_start(f, o, scope, TabCount(ws)))>> ELSE <<>>)
  \o (IF scope = "tab"
      THEN (IF "tab" \in TextCallbacks(f)
            THEN <<Frag("tab", 1, text_tab(f, o, ws[1][1], 0))>> ELSE <<>>)
      ELSE renderWindows(f, o, scope, ws, 1, 0))
  \o (IF "end" \in TextCallbacks(f) THEN <<Frag("end", 0, text_end(f, o))>> ELSE <<>>)

FragTexts(frags) == [i \in 1..Len(frags) |-> frags[i].text]

FragCalls(frags) == [i \in 1..Len(frags) |-> [kind |-> frags[i].kind, seq |-> frags[i].seq]]

(***************************************************************************)
(* Inputs of a copy action                                                 *)
(***************************************************************************)
ScopeTypes == {"tab", "window", "windows"}

\* the windows of at most mt tabs drawn from Tabs
WindowsOf(Tabs, mt) == UNION {[1..n -> Tabs] : n \in 0..mt}

\* the window lists of a scope: one tab; one window; at most mw windows
ScopeData(scope, Tabs, mw, mt) ==
  CASE scope = "tab" -> {<< <<t>> >> : t \in Tabs}
    [] scope = "window" -> {<<w>> : w \in WindowsOf(Tabs, mt)}
    [] scope = "windows" -> UNION {[1..n -> WindowsOf(Tabs, mt)] : n \in 0..mw}

\* the ids a caller may ask for: the built-in ids, ids of custom formats and
\* ids that are neither
CustomIds == { <<"c","u","s","t","o","m","-","1">>, <<"c","u","s","t","o","m","-">> }

UnknownIds == { <<"p","d","f">>, <<>>, <<"L","i","n","k">>, <<"c","u","s","t","o","m">> }

BuiltinIds == {builtinFormats[i].id : i \in 1..Len(builtinFormats)}

TabA == Tab(<<"a">>, <<"u">>, undefined)
TabB == Tab(undefined, <<"v">>, undefined)

BasicTabs == {TabA, TabB}

\* the declared default options of a format (undefined when it declares none)
DefaultOpts(f) ==
  CASE f.name = "titleUrl1Line" ->
         Opts(DEFAULT_TITLE_URL_1_LINE_SEPARATOR, FALSE, undefined, undefined)
    [] f.name = "json" ->
         Opts(undefined, TRUE, NumberToString(DEFAULT_INDENT_SIZE), <<"title", "url">>)
    [] OTHER -> OptsUndefined

(***************************************************************************)
(* The copy action: look the format up, then render its text and, when the *)
(* format declares one, its html representation                            *)
(***************************************************************************)
\* no options page is open during a copy action
OptionsIdle ==
  /\ configuredFormats = <<>>
  /\ optsEditFormatId = <<"UNDEFINED">>
  /\ editError = ""
  /\ mounted = FALSE
  /\ storage = <<>>
  /\ reads = <<>>
  /\ deleting = {}
  /\ console = ""
  /\ descriptions = <<>>

InitWith(Ids, OptsSet, Scopes, Tabs, mw, mt) ==
  /\ OptionsIdle
  /\ id \in Ids
  /\ opts \in OptsSet
  /\ scopeType \in Scopes
  /\ wins \in ScopeData(scopeType, Tabs, mw, mt)
  /\ pc = "ready"
  /\ format = undefinedFormat
  /\ text = <<>>
  /\ calls = <<>>
  /\ outputs = <<>>
  /\ html = undefined
  /\ htmlCalls = <<>>

GetFormat ==
  /\ pc = "ready"
  /\ format' = getFormat(id)
  /\ pc' = "resolved"
  /\ UNCHANGED <<id, opts, scopeType, wins, text, calls, outputs, html, htmlCalls,
               optionsVars>>

Render ==
  /\ pc = "resolved"
  /\ format # undefinedFormat
  /\ LET frags == render(format, opts, scopeType, wins)
     IN /\ text' = Flatten(FragTexts(frags))
        /\ calls' = FragCalls(frags)
        /\ outputs' = FragTexts(frags)
  /\ IF HasHtml(format)
     THEN LET frags == render(HtmlOf(format), opts, scopeType, wins)
          IN /\ html' = Flatten(FragTexts(frags))
             /\ htmlCalls' = FragCalls(frags)
     ELSE UNCHANGED <<html, htmlCalls>>
  /\ pc' = "done"
  /\ UNCHANGED <<id, opts, scopeType, wins, format, optionsVars>>

Next == GetFormat \/ Render

\* opts is undefined or the declared default of one of the formats
Init ==
  InitWith(BuiltinIds \cup CustomIds \cup UnknownIds,
           {DefaultOpts(builtinFormats[i]) : i \in 1..Len(builtinFormats)},
           ScopeTypes, BasicTabs, MaxWindows, MaxTabs)

Spec == Init /\ [][Next]_vars

(***************************************************************************)
(* The copy action restricted to the csv format                            *)
(***************************************************************************)
CsvTabs ==
  { Tab(<<"a",",","b">>, <<"u">>, undefined),
    Tab(undefined, <<"v">>, undefined),
    Tab(<<"c">>, <<"w">>, undefined) }

InitCsv ==
  InitWith({<<"c","s","v">>}, {OptsUndefined}, ScopeTypes, CsvTabs, MaxWindows, MaxTabs)

SpecCsv == InitCsv /\ [][Next]_vars

(***************************************************************************)
(* The copy action restricted to the json format                           *)
(***************************************************************************)
JsonTabs ==
  { Tab(<<"a"," ","\"">>, <<"u">>, <<"f">>),
    Tab(undefined, <<"v">>, undefined) }

JsonProperties ==
  { undefined, <<>>, <<"title">>, <<"url", "favIconUrl">> }

\* every shape of the option overlay: opts undefined, pretty off (the indent
\* is not read), pretty on with an indent that is missing, 0, 2 or no number
JsonOpts ==
  {OptsUndefined}
  \cup {Opts(undefined, FALSE, undefined, ps) : ps \in JsonProperties}
  \cup {Opts(undefined, TRUE, ind, ps) :
          ind \in {undefined, <<"0">>, <<"2">>, <<"x">>},
          ps \in {undefined, <<"url", "favIconUrl">>}}

InitJson ==
  InitWith({<<"j","s","o","n">>}, JsonOpts, ScopeTypes, JsonTabs, MaxWindows, MaxTabs)

SpecJson == InitJson /\ [][Next]_vars

\* the json format under every shape of the `indent` option: missing, empty,
\* 0, a number, no number, a number followed by text, a number above 10
JsonIndents ==
  { undefined, <<>>, <<"0">>, <<"2">>, <<"x">>, <<"2","x">>, <<"1","2">> }

JsonIndentOpts ==
  {OptsUndefined}
  \cup {Opts(undefined, pretty, ind, undefined) : pretty \in BOOLEAN, ind \in JsonIndents}

JsonIndentTabs == { Tab(<<"a">>, <<"u">>, undefined) }

InitJsonIndent ==
  InitWith({<<"j","s","o","n">>}, JsonIndentOpts, ScopeTypes, JsonIndentTabs,
           MaxWindows, MaxTabs)

SpecJsonIndent == InitJsonIndent /\ [][Next]_vars

(***************************************************************************)
(* The copy action restricted to titleUrl1Line and to markdown             *)
(***************************************************************************)
HttpX == <<"h","t","t","p",":","/","/","x">>

TitleUrlTabs ==
  { Tab(<<"E","x","a","m","p","l","e">>, HttpX, undefined),
    Tab(undefined, HttpX, undefined),
    Tab(<<>>, HttpX, undefined) }

\* opts undefined, the separator absent, ' | ', '' and the default
TitleUrlOpts ==
  {OptsUndefined}
  \cup {Opts(sep, FALSE, undefined, undefined) :
          sep \in {undefined, <<" ","|"," ">>, <<>>, DEFAULT_TITLE_URL_1_LINE_SEPARATOR}}

InitTitleUrl ==
  InitWith({<<"t","i","t","l","e","U","r","l","1","L","i","n","e">>}, TitleUrlOpts,
           ScopeTypes, TitleUrlTabs, MaxWindows, MaxTabs)

SpecTitleUrl == InitTitleUrl /\ [][Next]_vars

MarkdownTabs ==
  { Tab(<<"[","a","]","(">>, <<"u","(","1",")">>, undefined),
    Tab(<<"]","\\","[">>, <<"v","[","2","]">>, undefined),
    Tab(undefined, <<"w","[","(">>, undefined) }

InitMarkdown ==
  InitWith({<<"m","a","r","k","d","o","w","n">>}, {OptsUndefined},
           ScopeTypes, MarkdownTabs, MaxWindows, MaxTabs)

SpecMarkdown == InitMarkdown /\ [][Next]_vars

(***************************************************************************)
(* Operators the properties are stated with                                *)
(***************************************************************************)
Done == pc = "done"

\* the calls of one kind, in the order they were made
CallsOf(kind) == SelectSeq(calls, LAMBDA c : c.kind = kind)

NonEmptyWindows == {w \in 1..Len(wins) : wins[w] # <<>>}

RECURSIVE JoinTexts(_,_)
\* the texts of ts with d between neighbours, built from the last one back
JoinTexts(ts, d) ==
  IF ts = <<>> THEN <<>>
  ELSE IF Len(ts) = 1 THEN ts[1]
  ELSE JoinTexts(SubSeq(ts, 1, Len(ts) - 1), d) \o d \o ts[Len(ts)]

\* a callback's output, '' when the transform does not declare it
ExpStart ==
  IF "start" \in TextCallbacks(format)
  THEN text_start(format, opts, scopeType, TabCount(wins)) ELSE <<>>

ExpEnd == IF "end" \in TextCallbacks(format) THEN text_end(format, opts) ELSE <<>>

ExpWindowStart(w) ==
  IF "windowStart" \in TextCallbacks(format)
  THEN text_windowStart(format, opts, w) ELSE <<>>

ExpWindowEnd(w) ==
  IF "windowEnd" \in TextCallbacks(format)
  THEN text_windowEnd(format, opts, w) ELSE <<>>

ExpWindowBlock(w) ==
  ExpWindowStart(w)
  \o JoinTexts([k \in 1..Len(wins[w]) |-> text_tab(format, opts, wins[w][k], w)],
               Delimiter(text_tabDelimiter(format)))
  \o ExpWindowEnd(w)

ExpWindowsText ==
  ExpStart
  \o JoinTexts([w \in 1..Len(wins) |-> ExpWindowBlock(w)],
               Delimiter(text_windowDelimiter(format)))
  \o ExpEnd

IsUrlExample ==
  /\ Done /\ format.name = "url" /\ scopeType = "windows"
  /\ Len(wins) = 2 /\ Len(wins[1]) = 1 /\ Len(wins[2]) = 1

\* "Window 1\n\n<url1>\n\nWindow 2\n\n<url2>"
UrlExampleText ==
  <<"W","i","n","d","o","w"," ","1","\n","\n">> \o wins[1][1].url
  \o <<"\n","\n","W","i","n","d","o","w"," ","2","\n","\n">> \o wins[2][1].url

(***************************************************************************)
(* C1: with scope `windows` the url format renders 2 windows of 1 tab each *)
(* as "Window 1\n\n<url1>\n\nWindow 2\n\n<url2>"; for every format the     *)
(* text is start, the window blocks joined by windowDelimiter, end, each   *)
(* block being windowStart, the tab outputs joined by tabDelimiter,        *)
(* windowEnd; windows and tabs are visited in input order and numbered     *)
(* from 1.                                                                 *)
(***************************************************************************)
C1_ConcatenationOrder ==
  /\ IsUrlExample => text = UrlExampleText
  /\ (Done /\ scopeType = "windows") =>
       /\ text = ExpWindowsText
       /\ LET ts == CallsOf("tab")
              ss == CallsOf("windowStart")
          IN /\ Len(ts) = TabCount(wins)
             /\ \A k \in 1..Len(ts) : ts[k].seq = k
             /\ "windowStart" \in TextCallbacks(format) => Len(ss) = Len(wins)
             /\ \A w \in 1..Len(ss) : ss[w].seq = w

C1_Witness ==
  /\ IsUrlExample
  /\ wins[1][1].url # wins[2][1].url
  /\ text = <<"W","i","n","d","o","w"," ","1","\n","\n","u","\n","\n",
              "W","i","n","d","o","w"," ","2","\n","\n","v">>

(***************************************************************************)
(* C2: with scope `windows`, for every format, the number of tabDelimiter  *)
(* insertions is (tabs in scope) - (windows in scope) and the number of    *)
(* windowDelimiter insertions is (windows) - 1, also with windows of zero  *)
(* tabs and with an empty window list; delimiters are strictly between     *)
(* neighbours.  (The statement as claimed.)                                *)
(***************************************************************************)
C2_DelimiterCountsAsClaimed ==
  (Done /\ scopeType = "windows") =>
    /\ Len(CallsOf("tabDelimiter")) = TabCount(wins) - Len(wins)
    /\ Len(CallsOf("windowDelimiter")) = Len(wins) - 1

(***************************************************************************)
(* C2, amended: the counts hold for a non-empty list of windows that each  *)
(* hold at least one tab, and then every delimiter stands strictly between *)
(* two neighbours; in general a window of zero tabs takes no tabDelimiter  *)
(* (the count is tabs minus the non-empty windows) and an empty list takes *)
(* no windowDelimiter.                                                     *)
(***************************************************************************)
C2_DelimiterCounts ==
  (Done /\ scopeType = "windows") =>
    LET nTab == Len(CallsOf("tabDelimiter"))
        nWin == Len(CallsOf("windowDelimiter"))
        n == Len(calls)
    IN /\ nTab = TabCount(wins) - Cardinality(NonEmptyWindows)
       /\ nWin = IF wins = <<>> THEN 0 ELSE Len(wins) - 1
       /\ (wins # <<>> /\ NonEmptyWindows = 1..Len(wins)) =>
            /\ nTab = TabCount(wins) - Len(wins)
            /\ nWin = Len(wins) - 1
            /\ calls[1].kind \notin {"tabDelimiter", "windowDelimiter"}
            /\ calls[n].kind \notin {"tabDelimiter", "windowDelimiter"}
            /\ \A i \in 2..(n - 1) :
                 /\ calls[i].kind = "tabDelimiter" =>
                      calls[i - 1].kind = "tab" /\ calls[i + 1].kind = "tab"
                 /\ calls[i].kind = "windowDelimiter" =>
                      /\ calls[i - 1].kind \in {"tab", "windowEnd"}
                      /\ calls[i + 1].kind \in {"tab", "windowStart"}

C2_Witness ==
  /\ Done /\ scopeType = "windows" /\ format.name = "titleUrl2Line"
  /\ Len(wins) = 2 /\ Len(wins[1]) = 2 /\ Len(wins[2]) = 2
  /\ Len(CallsOf("tabDelimiter")) = 2
  /\ Len(CallsOf("windowDelimiter")) = 1

TitleUrlHeader == <<"T","i","t","l","e",",","U","R","L","\n">>

WindowTitleUrlHeader ==
  <<"W","i","n","d","o","w",",","T","i","t","l","e",",","U","R","L","\n">>

RECURSIVE SkipWs(_,_)
SkipWs(s, p) == IF p <= Len(s) /\ s[p] \in WhiteSpace THEN SkipWs(s, p + 1) ELSE p

RECURSIVE StringBody(_,_)
\* after the opening quote: up to the closing quote; a raw line break is an
\* error and a backslash takes the next character with it
StringBody(s, p) ==
  IF p > Len(s) \/ s[p] = "\n" THEN 0
  ELSE IF s[p] = "\"" THEN p + 1
  ELSE IF s[p] = "\\" THEN (IF p + 1 > Len(s) THEN 0 ELSE StringBody(s, p + 2))
  ELSE StringBody(s, p + 1)

ParseString(s, p) == IF p <= Len(s) /\ s[p] = "\"" THEN StringBody(s, p + 1) ELSE 0

RECURSIVE ParseValue(_,_)
RECURSIVE ParseElements(_,_)
RECURSIVE ParseMembers(_,_)

\* the elements of an array from p on, up to and including its `]`
ParseElements(s, p) ==
  LET v == ParseValue(s, p)
      r == SkipWs(s, v)
  IN IF v = 0 \/ r > Len(s) THEN 0
     ELSE IF s[r] = "," THEN ParseElements(s, SkipWs(s, r + 1))
     ELSE IF s[r] = "]" THEN r + 1
     ELSE 0

\* the members of an object from p on, up to and including its `}`
ParseMembers(s, p) ==
  LET k == ParseString(s, p)
      c == SkipWs(s, k)
  IN IF k = 0 \/ c > Len(s) \/ s[c] # ":" THEN 0
     ELSE LET v == ParseValue(s, SkipWs(s, c + 1))
              r == SkipWs(s, v)
          IN IF v = 0 \/ r > Len(s) THEN 0
             ELSE IF s[r] = "," THEN ParseMembers(s, SkipWs(s, r + 1))
             ELSE IF s[r] = "}" THEN r + 1
             ELSE 0

ParseValue(s, p) ==
  IF p > Len(s) THEN 0
  ELSE IF s[p] = "\"" THEN ParseString(s, p)
  ELSE IF s[p] = "[" THEN
         LET q == SkipWs(s, p + 1)
         IN IF q <= Len(s) /\ s[q] = "]" THEN q + 1 ELSE ParseElements(s, q)
  ELSE IF s[p] = "{" THEN
         LET q == SkipWs(s, p + 1)
         IN IF q <= Len(s) /\ s[q] = "}" THEN q + 1 ELSE ParseMembers(s, q)
  ELSE 0

\* the whole text is one JSON array
IsJsonArray(s) ==
  LET p == SkipWs(s, 1)
  IN /\ p <= Len(s) /\ s[p] = "["
     /\ LET e == ParseValue(s, p) IN e # 0 /\ SkipWs(s, e) = Len(s) + 1

\* the number of opening minus the number of closing brackets of a kind
Balance(s, open, close) == Count(s, {open}) - Count(s, {close})

AllTabs == Flatten(wins)

RECURSIVE Sum(_)
Sum(ns) == IF ns = <<>> THEN 0 ELSE Head(ns) + Sum(Tail(ns))

\* the white space that the values a tab's object holds bring into the text
TabValueWhiteSpace(tab) ==
  LET props == json_tabObject(opts, tab)
  IN Sum([i \in 1..Len(props) |-> Count(jsonEscape(props[i].value), WhiteSpace)])

TabDataWhiteSpace == Sum([i \in 1..Len(AllTabs) |-> TabValueWhiteSpace(AllTabs[i])])

\* the positions of the quotes that open or close a string literal: those
\* preceded by an even number of backslashes
LiteralQuotes(s) ==
  LET Run(j) == CHOOSE k \in 0..(j - 1) :
                  /\ \A m \in 1..k : s[j - m] = "\\"
                  /\ (k = j - 1 \/ s[j - k - 1] # "\\")
  IN {j \in 1..Len(s) : s[j] = "\"" /\ Run(j) % 2 = 0}

\* no white space of s is outside a string literal
NoWhiteSpaceOutsideStrings(s) ==
  LET qs == LiteralQuotes(s)
  IN \A i \in 1..Len(s) :
       s[i] \in WhiteSpace => Cardinality({j \in qs : j < i}) % 2 = 1

(***************************************************************************)
(* C5: for the json format with pretty=false, every scope type and every   *)
(* window/tab list, the text holds no white space other than white space   *)
(* of a tab's own title/url/favIconUrl value.  (The statement as claimed.) *)
(***************************************************************************)
C5_NoAddedWhiteSpaceAsClaimed ==
  (Done /\ format.name = "json" /\ ~json_pretty(opts)) =>
    Count(text, WhiteSpace) = TabDataWhiteSpace

(***************************************************************************)
(* C5, amended: with pretty=false the only white space of the text is that *)
(* of the tabs' values and the one space of each window object's title,    *)
(* `Window <n>`, which windowStart writes in a scope with window           *)
(* boundaries; no white space stands outside a string literal.             *)
(***************************************************************************)
C5_NoAddedWhiteSpace ==
  (Done /\ format.name = "json" /\ ~json_pretty(opts)) =>
    /\ Count(text, WhiteSpace) =
         TabDataWhiteSpace + Len(CallsOf("windowStart"))
    /\ Len(CallsOf("windowStart")) =
         IF IncludesWindowBoundaries(scopeType) THEN Len(wins) ELSE 0
    /\ NoWhiteSpaceOutsideStrings(text)

C5_Witness ==
  /\ Done /\ format.name = "json" /\ ~json_pretty(opts)
  /\ scopeType = "windows" /\ Len(wins) = 2 /\ Len(wins[1]) = 2
  /\ TabDataWhiteSpace = 1
  /\ Count(text, WhiteSpace) = 3

KeyChars(p) ==
  CASE p = "title" -> <<"t","i","t","l","e">>
    [] p = "url" -> <<"u","r","l">>
    [] p = "favIconUrl" -> <<"f","a","v","I","c","o","n","U","r","l">>

\* pat occurs in s
Occurs(s, pat) ==
  \E i \in 1..(Len(s) - Len(pat) + 1) : SubSeq(s, i, i + Len(pat) - 1) = pat

\* the selection the options make: the listed properties, title and url when
\* none is supplied
SelectedByOpts(p) ==
  IF opts.isUndefined \/ opts.properties = undefined \/ opts.properties = <<>>
  THEN p \in {"title", "url"}
  ELSE Includes(opts.properties, p)

(***************************************************************************)
(* C6: for the json format a tab's object holds property p of title, url,  *)
(* favIconUrl exactly when the `properties` option selects p and the tab   *)
(* has a non-empty value for p; with no properties supplied (opts          *)
(* undefined, properties absent or empty) the selection is title+url, so   *)
(* favIconUrl is never written.                                            *)
(***************************************************************************)
C6_PropertiesFilter ==
  (Done /\ format.name = "json") =>
    /\ \A i \in 1..Len(AllTabs) : \A p \in {"title", "url", "favIconUrl"} :
         (\E k \in 1..Len(json_tabObject(opts, AllTabs[i])) :
             json_tabObject(opts, AllTabs[i])[k].key = KeyChars(p))
         <=> (SelectedByOpts(p) /\ Truthy(AllTabs[i][p]))
    /\ scopeType = "tab" =>
         \A p \in {"title", "url", "favIconUrl"} :
           Occurs(text, jsonQuote(KeyChars(p)) \o <<":">>)
           <=> (SelectedByOpts(p) /\ Truthy(wins[1][1][p]))

\* the separator the options supply, undefined when they supply none
SuppliedSeparator == IF opts.isUndefined THEN undefined ELSE opts.separator

\* T + S + url
TitleSeparatorUrl(tab) ==
  (IF tab.title = undefined \/ tab.title = <<>> THEN Untitled ELSE tab.title)
  \o (IF SuppliedSeparator = undefined THEN <<":"," ">> ELSE SuppliedSeparator)
  \o tab.url

(***************************************************************************)
(* C7: for titleUrl1Line the tab output is T + S + url, T the title or     *)
(* `(untitled)` when the title is undefined or empty, S the separator      *)
(* supplied or else `: `; ` | ` gives `Example | http://x` and, without a  *)
(* title, `(untitled) | http://x`; both versions of getTitleUrlText give   *)
(* this result.                                                            *)
(***************************************************************************)
C7_TitleSeparatorUrl ==
  (Done /\ format.name = "titleUrl1Line") =>
    /\ \A i \in 1..Len(AllTabs) :
         /\ titleUrl1Line_tab(opts, AllTabs[i]) = TitleSeparatorUrl(AllTabs[i])
         /\ getTitleUrlText_part002(AllTabs[i].url, AllTabs[i].title, SuppliedSeparator)
              = TitleSeparatorUrl(AllTabs[i])
    /\ (scopeType = "tab" /\ SuppliedSeparator = <<" ","|"," ">>) =>
         text = (IF Truthy(wins[1][1].title)
                 THEN <<"E","x","a","m","p","l","e">> ELSE Untitled)
                \o <<" ","|"," ">> \o HttpX

\* every character of cs in s preceded by a backslash, the others kept
Escaped(s, cs) ==
  Flatten([i \in 1..Len(s) |-> IF s[i] \in cs THEN <<"\\", s[i]>> ELSE <<s[i]>>])

\* [text](url) of a tab: the text is the title, the url when there is none
MarkdownLink(tab) ==
  <<"[">>
  \o Escaped(IF tab.title = undefined \/ tab.title = <<>> THEN tab.url ELSE tab.title,
             {"[", "]"})
  \o <<"]","(">> \o Escaped(tab.url, {"(", ")"}) \o <<")">>

(***************************************************************************)
(* C8: for the markdown format every tab renders as [text](url) with every *)
(* `[` and `]` of the title escaped as `\[` and `\]`, every `(` and `)` of *)
(* the url escaped as `\(` and `\)`, and no other character changed.       *)
(***************************************************************************)
C8_MarkdownEscapes ==
  (Done /\ format.name = "markdown") =>
    /\ \A i \in 1..Len(AllTabs) : markdown_tab(AllTabs[i]) = MarkdownLink(AllTabs[i])
    /\ scopeType = "tab" => text = MarkdownLink(wins[1][1])
    /\ scopeType = "window" =>
         text = JoinTexts([k \in 1..Len(wins[1]) |-> MarkdownLink(wins[1][k])],
                          <<"\n","\n">>)

C8_Witness ==
  /\ Done /\ format.name = "markdown" /\ scopeType = "tab"
  /\ wins[1][1].title = <<"[","a","]","(">>
  /\ text = <<"[","\\","[","a","\\","]","(","]","(","u","\\","(","1","\\",")",")">>

\* the default template of a custom format, as tokens: a placeholder or one
\* literal character each
DefaultTabTemplate ==
  <<"[#]", ")", " ", "T","i","t","l","e",":"," ", "[title]", "[n]",
    " "," "," ","U","R","L",":"," "," "," ", "[url]">>

DefaultDelimiterTemplate == <<"[n]", "[n]">>

\* a template with [n], [#], [title] and [url] replaced for tab number k
Interpolate(template, tab, k) ==
  Flatten([i \in 1..Len(template) |->
             CASE template[i] = "[n]" -> <<"\n">>
               [] template[i] = "[#]" -> NumberToString(k)
               [] template[i] = "[title]" -> tab.title
               [] template[i] = "[url]" -> tab.url
               [] OTHER -> <<template[i]>>])

EndsWith(s, e) == Len(s) >= Len(e) /\ SubSeq(s, Len(s) - Len(e) + 1, Len(s)) = e

(***************************************************************************)
(* C9: a custom format with the default template, rendered over 2 tabs,    *)
(* gives two tab blocks joined by a blank line, the k-th beginning with k: *)
(* [n] is a newline, [#] the tab's 1-based number, [title] and [url] the   *)
(* tab's fields, and the blocks are joined by the rendered delimiter (the  *)
(* footer is empty, so the text ends with the blocks).                     *)
(***************************************************************************)
C9_CustomTemplate ==
  ( /\ Done /\ format = customFormat /\ scopeType = "window"
    /\ Len(wins[1]) = 2
    /\ Truthy(wins[1][1].title) /\ Truthy(wins[1][2].title) ) =>
    EndsWith(text,
             Interpolate(DefaultTabTemplate, wins[1][1], 1)
             \o Interpolate(DefaultDelimiterTemplate, wins[1][1], 1)
             \o Interpolate(DefaultTabTemplate, wins[1][2], 2))

(***************************************************************************)
(* C10: getFormat(id) returns the custom-format entry for every id that    *)
(* starts with `custom-`, the built-in entry whose id is `id` for every    *)
(* built-in id, and for any other id it fails with a not-found error: it   *)
(* does not return.                                                        *)
(***************************************************************************)
C10_GetFormat ==
  pc # "ready" =>
    /\ isCustomFormatId(id) => format = customFormat
    /\ id \in BuiltinIds =>
         format.id = id /\ \E i \in 1..Len(builtinFormats) : builtinFormats[i] = format
    /\ (~isCustomFormatId(id) /\ id \notin BuiltinIds) =>
         pc \notin {"resolved", "done"}

(***************************************************************************)
(* C11: for the `link` format no window-boundary output is emitted in any  *)
(* representation: neither the text nor the html representation calls      *)
(* windowStart or windowEnd, and nothing is put between two windows, so    *)
(* each representation is the tab outputs of every window joined by the    *)
(* tab delimiter, the windows' blocks following each other directly; the   *)
(* text output of a tab is its URL, the html output the tab's anchor tag.  *)
(***************************************************************************)
WindowBoundaryCalls == {"windowStart", "windowEnd"}

\* the tab outputs of every window joined by d, the windows joined by nothing
TabsOnly(out(_), d) ==
  JoinTexts([w \in 1..Len(wins) |->
               JoinTexts([k \in 1..Len(wins[w]) |-> out(wins[w][k])], d)],
            <<>>)

TabUrl(tab) == tab.url

AnchorTag(tab) ==
  <<"<","a"," ","h","r","e","f","=","\"">> \o tab.url \o <<"\"",">">>
  \o encodeHtml(IF Truthy(tab.title) THEN tab.title ELSE tab.url)
  \o <<"<","/","a",">">>

C11_LinkNoWindowBoundaries ==
  (Done /\ format.name = "link") =>
    /\ \A i \in 1..Len(calls) : calls[i].kind \notin WindowBoundaryCalls
    /\ \A i \in 1..Len(htmlCalls) : htmlCalls[i].kind \notin WindowBoundaryCalls
    /\ text = TabsOnly(TabUrl, Delimiter(text_tabDelimiter(format)))
    /\ html = TabsOnly(AnchorTag, Delimiter(text_tabDelimiter(HtmlOf(format))))

(***************************************************************************)
(* The options page (Options.tsx).  Its state is configuredFormats (the    *)
(* displayed list), optsEditFormatId, editError and whether it is mounted; *)
(* `storage` is the persisted list of configured formats, `reads` the      *)
(* results of the getConfiguredFormats() reads in flight, oldest first,    *)
(* `deleting` the ids whose removeCustomFormat() is in flight and          *)
(* `console` the exception last written by console.error.                  *)
(***************************************************************************)
\* reads in flight at once
MaxReads == 2

ConfiguredFormat(fid, visible) == [id |-> fid, visible |-> visible]

\* the messages shown in the editor
GenericFormatDeleteError == "genericFormatDeleteError"

MinVisibleFormatDeleteError == "minVisibleFormatDeleteError"

filterVisible(cfs) == SelectSeq(cfs, LAMBDA f : f.visible)

visibleFormats == filterVisible(configuredFormats)

isMinVisibleFormatCount == Len(visibleFormats) <= MIN_VISIBLE_FORMAT_COUNT

inert == Truthy(optsEditFormatId)

\* Array.prototype.findIndex: the 0-based index of the first match, else -1
findIndex(list, fid) ==
  LET ms == {i \in 1..Len(list) : list[i].id = fid}
  IN IF ms = {} THEN -1 ELSE (CHOOSE i \in ms : \A j \in ms : i <= j) - 1

\* the descriptions: hidden, default, hold <secondary key>, hold <ternary key>
getFormatDescription(f, visibles) ==
  IF ~f.visible THEN "hidden"
  ELSE LET idx == findIndex(visibles, f.id)
       IN IF idx = 0 THEN "default"
          ELSE IF idx = 1 THEN "holdWhenCopying(secondary)"
          ELSE IF idx = 2 THEN "holdWhenCopying(ternary)"
          ELSE "undefined"

(***************************************************************************)
(* The storage module ('@/storage'), a collaborator of the page            *)
(***************************************************************************)
Has(list, fid) == \E i \in 1..Len(list) : list[i].id = fid

IsVisibleIn(list, fid) == \E i \in 1..Len(list) : list[i].id = fid /\ list[i].visible

\* a mutant of the policy check: hiding or deleting is never refused
MinVisibleFormatExceeded_never(list, fid) == FALSE

\* the policy check: hiding or deleting fid would leave fewer than the minimum
MinVisibleFormatExceeded(list, fid) ==
  IsVisibleIn(list, fid) /\ Len(filterVisible(list)) <= MIN_VISIBLE_FORMAT_COUNT

toggleVisibleFormatId(list, fid) ==
  IF MinVisibleFormatExceeded(list, fid) THEN list
  ELSE [i \in 1..Len(list) |->
          IF list[i].id = fid THEN ConfiguredFormat(fid, ~list[i].visible) ELSE list[i]]

removeCustomFormat(list, fid) == SelectSeq(list, LAMBDA f : f.id # fid)

addCustomFormat(list, fid) == Append(list, ConfiguredFormat(fid, TRUE))

(***************************************************************************)
(* The page's handlers and the completions of its asynchronous calls       *)
(***************************************************************************)
\* storage changed to ns: the listener, while registered, starts a read
handleStorageChanged(ns) ==
  /\ storage' = ns
  /\ reads' = IF mounted THEN Append(reads, ns) ELSE reads

\* a mutant of closeFormatOptsEditor: the error is left as it is
closeFormatOptsEditor_keepsError ==
  /\ optsEditFormatId' = undefined
  /\ UNCHANGED editError

closeFormatOptsEditor ==
  /\ optsEditFormatId' = undefined
  /\ editError' = ""

\* FormatConfig.onClick = toggleVisibleFormatId, unless the button is disabled
ToggleVisible ==
  /\ mounted /\ ~inert /\ Len(reads) < MaxReads
  /\ \E i \in 1..Len(configuredFormats) :
       LET f == configuredFormats[i]
           ns == toggleVisibleFormatId(storage, f.id)
       IN /\ ~(f.visible /\ isMinVisibleFormatCount)
          /\ IF ns # storage THEN handleStorageChanged(ns)
             ELSE UNCHANGED <<storage, reads>>
  /\ UNCHANGED <<configuredFormats, optsEditFormatId, editError, mounted, deleting, console, descriptions, copyVars>>

\* FormatConfig.onOptsClick
OpenEditor ==
  /\ mounted /\ ~inert
  /\ \E i \in 1..Len(configuredFormats) :
       /\ isFormatWithOptsId(configuredFormats[i].id)
       /\ optsEditFormatId' = configuredFormats[i].id
  /\ UNCHANGED <<configuredFormats, editError, mounted, storage, reads, deleting, console, descriptions, copyVars>>

\* FormatOptsEditor.onCancel
Cancel ==
  /\ mounted /\ inert
  /\ closeFormatOptsEditor
  /\ UNCHANGED <<configuredFormats, mounted, storage, reads, deleting, console, descriptions, copyVars>>

\* FormatOptsEditor.onOK: setFormatOpts writes the storage, the editor closes
OK ==
  /\ mounted /\ inert /\ Len(reads) < MaxReads
  /\ handleStorageChanged(storage)
  /\ closeFormatOptsEditor
  /\ UNCHANGED <<configuredFormats, mounted, deleting, console, descriptions, copyVars>>

\* FormatOptsEditor.onDelete -> deleteFormat, up to its await
Delete ==
  /\ mounted /\ inert
  /\ IF isCustomFormatId(optsEditFormatId)
     THEN /\ optsEditFormatId \notin deleting
          /\ deleting' = deleting \cup {optsEditFormatId}
          /\ UNCHANGED editError
     ELSE /\ editError' = GenericFormatDeleteError
          /\ UNCHANGED deleting
  /\ UNCHANGED <<configuredFormats, optsEditFormatId, mounted, storage, reads, console, descriptions, copyVars>>

\* removeCustomFormat(formatId) resolves: deleteFormat goes on after its await
DeleteResolves ==
  /\ Len(reads) < MaxReads
  /\ \E fid \in deleting :
       /\ Has(storage, fid) /\ ~MinVisibleFormatExceeded(storage, fid)
       /\ deleting' = deleting \ {fid}
       /\ handleStorageChanged(removeCustomFormat(storage, fid))
  /\ IF mounted THEN closeFormatOptsEditor ELSE UNCHANGED <<optsEditFormatId, editError>>
  /\ UNCHANGED <<configuredFormats, mounted, console, descriptions, copyVars>>

\* removeCustomFormat(formatId) rejects: the catch block of deleteFormat
DeleteRejects ==
  /\ \E fid \in deleting :
       /\ deleting' = deleting \ {fid}
       /\ \E minVisibleFormatExceededError \in {TRUE, FALSE} :
            /\ minVisibleFormatExceededError => MinVisibleFormatExceeded(storage, fid)
            /\ console' = IF minVisibleFormatExceededError
                          THEN "MinVisibleFormatExceededError" ELSE "Error"
            /\ editError' =
                 IF ~mounted THEN editError
                 ELSE IF minVisibleFormatExceededError THEN MinVisibleFormatDeleteError
                 ELSE GenericFormatDeleteError
  /\ UNCHANGED <<configuredFormats, optsEditFormatId, mounted, storage, reads, descriptions,
               copyVars>>

OptionCustomIds == { <<"c","u","s","t","o","m","-","1">> }

\* the add-format button
AddCustomFormat ==
  /\ mounted /\ ~inert /\ Len(reads) < MaxReads
  /\ \E fid \in OptionCustomIds :
       /\ ~Has(storage, fid)
       /\ handleStorageChanged(addCustomFormat(storage, fid))
  /\ UNCHANGED <<configuredFormats, optsEditFormatId, editError, mounted, deleting, console, descriptions, copyVars>>

\* a mutant of the descriptions: the rank is taken in the whole list
FormatConfigDescriptions_allFormats(cfs) ==
  [i \in 1..Len(cfs) |-> getFormatDescription(cfs[i], cfs)]

\* the description each FormatConfig of the rendered list is given
FormatConfigDescriptions(cfs) ==
  [i \in 1..Len(cfs) |-> getFormatDescription(cfs[i], filterVisible(cfs))]

\* a getConfiguredFormats() read resolves: .then(setConfiguredFormats), and the
\* list is rendered again; a state update of an unmounted component is dropped
ReadResolves ==
  /\ \E i \in 1..Len(reads) :
       /\ configuredFormats' = IF mounted THEN reads[i] ELSE configuredFormats
       /\ descriptions' = IF mounted THEN FormatConfigDescriptions(reads[i])
                          ELSE descriptions
       /\ reads' = SubSeq(reads, 1, i - 1) \o SubSeq(reads, i + 1, Len(reads))
  /\ UNCHANGED <<optsEditFormatId, editError, mounted, storage, deleting, console, copyVars>>

\* the page is closed: the effect's cleanup removes the storage listener
Unmount ==
  /\ mounted
  /\ mounted' = FALSE
  /\ UNCHANGED <<configuredFormats, optsEditFormatId, editError, storage, reads, deleting, console, descriptions, copyVars>>

NextOptions ==
  \/ ToggleVisible \/ OpenEditor \/ Cancel \/ OK \/ Delete
  \/ DeleteResolves \/ DeleteRejects \/ AddCustomFormat \/ ReadResolves \/ Unmount

\* no copy action runs while the options page is modelled
CopyIdle ==
  /\ id = <<>> /\ opts = OptsUndefined /\ scopeType = "tab" /\ wins = <<>>
  /\ pc = "idle" /\ format = undefinedFormat
  /\ text = <<>> /\ calls = <<>> /\ outputs = <<>>
  /\ html = undefined /\ htmlCalls = <<>>

\* the persisted lists the page may start from: four formats, at least
\* MIN_VISIBLE_FORMAT_COUNT of them visible
OptionFormatOrders ==
  { << <<"l","i","n","k">>, <<"c","u","s","t","o","m","-","1">>,
       <<"j","s","o","n">>, <<"t","i","t","l","e">> >> }

StoragesOf(orders) ==
  { cfs \in UNION { { [i \in 1..Len(order) |-> ConfiguredFormat(order[i], v[i])] :
                        v \in [1..Len(order) -> BOOLEAN] } : order \in orders } :
      Len(filterVisible(cfs)) >= MIN_VISIBLE_FORMAT_COUNT }

InitialStorages == StoragesOf(OptionFormatOrders)

\* the page mounts: useState's initial values, and applyStorageState starts
\* the first read
InitOptionsWith(Storages) ==
  /\ CopyIdle
  /\ storage \in Storages
  /\ configuredFormats = <<>>
  /\ optsEditFormatId = undefined
  /\ editError = ""
  /\ mounted = TRUE
  /\ reads = <<storage>>
  /\ deleting = {}
  /\ console = ""
  /\ descriptions = <<>>

InitOptions == InitOptionsWith(InitialStorages)

SpecOptions == InitOptions /\ [][NextOptions]_vars

(***************************************************************************)
(* The list of formats of the options page alone: it is read, rendered     *)
(* with its descriptions, and its visibility buttons are clicked           *)
(***************************************************************************)
DescriptionFormatOrders ==
  { << <<"j","s","o","n">>, <<"u","r","l">>, <<"c","u","s","t","o","m","-","1">>,
       <<"l","i","n","k">>, <<"t","i","t","l","e">> >>,
    << <<"t","i","t","l","e">>, <<"c","u","s","t","o","m","-","1">>,
       <<"l","i","n","k">>, <<"j","s","o","n">> >> }

InitDescriptions == InitOptionsWith(StoragesOf(DescriptionFormatOrders))

NextDescriptions == ToggleVisible \/ ReadResolves

SpecDescriptions == InitDescriptions /\ [][NextDescriptions]_vars

(***************************************************************************)
(* C12: deleteFormat(formatId) closes the opts editor (optsEditFormatId    *)
(* becomes undefined, editError '') only when formatId is a custom id and  *)
(* removeCustomFormat succeeds.  For a built-in id nothing is removed and  *)
(* the generic delete error is shown.  When removeCustomFormat fails with  *)
(* MinVisibleFormatExceededError the min-visible message is shown, with    *)
(* any other failure the generic message.  In every failing case the       *)
(* handler leaves optsEditFormatId as it is and ends by showing a message. *)
(* A completion is a step that takes an id out of `deleting`; it succeeded *)
(* when it removed the format from the storage.                            *)
(***************************************************************************)
DeleteCompleted == deleting' # deleting /\ deleting' \subseteq deleting

DeleteSucceeded ==
  /\ DeleteCompleted
  /\ \E fid \in deleting \ deleting' :
       isCustomFormatId(fid) /\ Has(storage, fid) /\ ~Has(storage', fid)

\* deleteFormat of a built-in id: a message appears in the editor that is open
\* on it, and no delete starts or completes
BuiltinDeleteRefused ==
  /\ deleting' = deleting /\ Truthy(optsEditFormatId)
  /\ ~isCustomFormatId(optsEditFormatId)
  /\ optsEditFormatId' = optsEditFormatId
  /\ editError' # editError /\ editError' # ""

C12_DeleteFormat ==
  [][ mounted =>
        /\ DeleteSucceeded => (optsEditFormatId' = undefined /\ editError' = "")
        /\ (DeleteCompleted /\ ~DeleteSucceeded) =>
             /\ storage' = storage
             /\ optsEditFormatId' = optsEditFormatId
             /\ console' \in {"MinVisibleFormatExceededError", "Error"}
             /\ editError' = IF console' = "MinVisibleFormatExceededError"
                             THEN MinVisibleFormatDeleteError
                             ELSE GenericFormatDeleteError
        /\ BuiltinDeleteRefused =>
             (storage' = storage /\ editError' = GenericFormatDeleteError)
        \* nothing else of deleteFormat closes the editor or shows an error
        /\ (deleting' # deleting /\ ~DeleteCompleted) =>
             (optsEditFormatId' = optsEditFormatId /\ editError' = editError)
        /\ (editError' # editError /\ editError' # "") =>
             (DeleteCompleted \/ BuiltinDeleteRefused)
    ]_vars

\* a delete of a custom format has failed on the minimum, the editor still open
C12_Witness ==
  /\ mounted /\ isCustomFormatId(optsEditFormatId)
  /\ editError = MinVisibleFormatDeleteError
  /\ console = "MinVisibleFormatExceededError"
  /\ deleting = {}

(***************************************************************************)
(* C13: the role shown for a format of the displayed list is decided by    *)
(* its rank among the visible formats only: a hidden format is described   *)
(* as hidden, the 1st visible format as the default, the 2nd as the        *)
(* secondary-modifier format, the 3rd as the ternary-modifier format, a    *)
(* visible format of rank 4 or more gets no description; hidden formats    *)
(* placed earlier never shift or consume a rank, and at most one format    *)
(* holds each of the three roles.                                          *)
(***************************************************************************)
\* the number of visible formats among the first i of the displayed list
VisibleRank(i) == Cardinality({j \in 1..i : configuredFormats[j].visible})

Roles == <<"default", "holdWhenCopying(secondary)", "holdWhenCopying(ternary)">>

C13_RolesByVisibleRank ==
  /\ Len(descriptions) = Len(configuredFormats)
  /\ \A i \in 1..Len(configuredFormats) :
       descriptions[i] =
         IF ~configuredFormats[i].visible THEN "hidden"
         ELSE IF VisibleRank(i) <= 3 THEN Roles[VisibleRank(i)]
         ELSE "undefined"
  /\ \A r \in 1..3 :
       Cardinality({i \in 1..Len(descriptions) : descriptions[i] = Roles[r]}) <= 1

\* a hidden format heads the list and four visible formats follow it
C13_Witness ==
  /\ Len(configuredFormats) = 5
  /\ ~configuredFormats[1].visible
  /\ \A i \in 2..5 : configuredFormats[i].visible
  /\ descriptions[5] = "undefined"

(***************************************************************************)
(* C14: the id predicates depend on the id alone.  isCustomFormatId(id)    *)
(* holds exactly when id starts with `custom-`; isBuiltinFormatWithOptsId  *)
(* holds exactly for titleUrl1Line, json and htmlTable; isFormatWithOptsId *)
(* is their disjunction and holds exactly when getFormat(id) returns an    *)
(* entry that declares opts; the built-in ids are pairwise distinct and    *)
(* none starts with `custom-`, so no id is both custom and built-in.       *)
(***************************************************************************)
CustomPrefix == <<"c","u","s","t","o","m","-">>

IdsDeclaringOpts ==
  { <<"t","i","t","l","e","U","r","l","1","L","i","n","e">>,
    <<"j","s","o","n">>,
    <<"h","t","m","l","T","a","b","l","e">> }

C14_IdPredicates ==
  /\ isCustomFormatId(id) <=>
       (Len(id) >= Len(CustomPrefix) /\ SubSeq(id, 1, Len(CustomPrefix)) = CustomPrefix)
  /\ isBuiltinFormatWithOptsId(id) <=> id \in IdsDeclaringOpts
  /\ isFormatWithOptsId(id) <=> (isBuiltinFormatWithOptsId(id) \/ isCustomFormatId(id))
  /\ pc \in {"resolved", "done"} =>
       (isFormatWithOptsId(id) <=> (format # undefinedFormat /\ format.hasOpts))
  /\ \A i, j \in 1..Len(builtinFormatIds) :
       builtinFormatIds[i] = builtinFormatIds[j] => i = j
  /\ \A i \in 1..Len(builtinFormatIds) :
       Len(builtinFormatIds[i]) < Len(CustomPrefix)
       \/ SubSeq(builtinFormatIds[i], 1, Len(CustomPrefix)) # CustomPrefix
  /\ ~(isCustomFormatId(id) /\ \E i \in 1..Len(builtinFormatIds) : builtinFormatIds[i] = id)

\* getFormat has returned the custom-format entry for an id with the prefix
C14_Witness ==
  /\ pc = "resolved" /\ isCustomFormatId(id) /\ isFormatWithOptsId(id)
  /\ format = customFormat /\ format.hasOpts

IndentWidthOf(ind) ==
  CASE ind = <<"0">> -> 0
    [] ind = <<"2">> -> 2
    [] ind = <<"2","x">> -> 2
    [] ind = <<"1","2">> -> 12
    [] OTHER -> 3

ClaimedIndentWidth ==
  IF opts.isUndefined \/ ~opts.pretty THEN 0 ELSE IndentWidthOf(opts.indent)

\* the number of spaces of s from position p on
LeadingSpaces(s, p) ==
  LET ends == {q \in p..(Len(s) + 1) : \A r \in p..(q - 1) : s[r] = " "}
  IN (CHOOSE q \in ends : \A r \in ends : r <= q) - p

\* a callback's output opens an object after a line break (pretty only) and n spaces
OpensObjectAt(s, n) ==
  LET p == IF s # <<>> /\ s[1] = "\n" THEN 2 ELSE 1
  IN /\ LeadingSpaces(s, p) = n
     /\ p + n <= Len(s) /\ s[p + n] = "{"
     /\ (p = 2) <=> (~opts.isUndefined /\ opts.pretty)

C16_IndentWidth ==
  (Done /\ format.name = "json") =>
    LET w == ClaimedIndentWidth
        nl == IF ~opts.isUndefined /\ opts.pretty THEN <<"\n">> ELSE <<>>
    IN /\ json_indentSize(opts) = w
       /\ \A i \in 1..Len(calls) :
            /\ calls[i].kind = "windowStart" => OpensObjectAt(outputs[i], w)
            /\ calls[i].kind = "windowEnd" =>
                 outputs[i] = nl \o Spaces(2 * w) \o <<"]">> \o nl \o Spaces(w) \o <<"}">>
            /\ calls[i].kind = "tab" =>
                 OpensObjectAt(outputs[i], IF scopeType = "tab" THEN w ELSE 3 * w)

\* two windows with a tab each, pretty-printed with an indent of `2x`
C16_Witness ==
  /\ Done /\ format.name = "json" /\ scopeType = "windows"
  /\ ~opts.isUndefined /\ opts.pretty /\ opts.indent = <<"2","x">>
  /\ Len(wins) = 2 /\ wins[1] # <<>> /\ wins[2] # <<>>
  /\ Len(CallsOf("windowEnd")) = 2

(***************************************************************************)
(* C17: under every interleaving of the user's actions (open editor,       *)
(* cancel, OK, delete) with the completion of a pending removeCustomFormat *)
(* editError is non-empty only while the opts editor is open on the format *)
(* whose delete failed: whenever optsEditFormatId is undefined editError   *)
(* is '', an editor that opens starts with an empty error, and the         *)
(* completion of a delete started for format A neither closes nor marks    *)
(* with an error an editor that is by then open on another format B.       *)
(***************************************************************************)
ErrorOnlyWhileOpen == (mounted /\ ~Truthy(optsEditFormatId)) => editError = ""

EditorOpensWithoutError ==
  (mounted /\ ~Truthy(optsEditFormatId) /\ Truthy(optsEditFormatId')) => editError' = ""

CompletionLeavesOtherEditor ==
  ( /\ mounted /\ DeleteCompleted
    /\ Truthy(optsEditFormatId) /\ optsEditFormatId \notin (deleting \ deleting') ) =>
    (optsEditFormatId' = optsEditFormatId /\ editError' = editError)

C17_EditErrorFollowsEditor ==
  /\ []ErrorOnlyWhileOpen
  /\ [][EditorOpensWithoutError /\ CompletionLeavesOtherEditor]_vars

(***************************************************************************)
(* C18: after any sequence of storage-change events, once every pending    *)
(* getConfiguredFormats() read has resolved, the displayed                 *)
(* configuredFormats is the result of the most recently started read (the  *)
(* latest storage state): a read started earlier that resolves later never *)
(* overwrites the result of a later read, and no read that resolves after  *)
(* unmount is applied.                                                     *)
(***************************************************************************)
LatestReadDisplayed == (mounted /\ reads = <<>>) => configuredFormats = storage

NoReadAppliedAfterUnmount == ~mounted => configuredFormats' = configuredFormats

C18_LatestReadWins ==
  /\ []LatestReadDisplayed
  /\ [][NoReadAppliedAfterUnmount]_vars

(***************************************************************************)
(* C19: for the csv format, in every render with at least one tab, the     *)
(* header row and every data row have the same number of columns: the      *)
(* header carries the `Window` column exactly when each tab row carries a  *)
(* window field, for each scope type (`tab`, `window`, `windows`); a tab   *)
(* with no title yields an empty title field, not a dropped column.        *)
(***************************************************************************)
\* the fields of a row: one more than its commas outside quoted fields
ColumnCount(row) ==
  1 + Cardinality({i \in 1..Len(row) :
                     /\ row[i] = ","
                     /\ Cardinality({j \in 1..i : row[j] = "\""}) % 2 = 0})

WindowColumn == <<"W","i","n","d","o","w">>

HasWindowColumn(row) ==
  Len(row) >= Len(WindowColumn) /\ SubSeq(row, 1, Len(WindowColumn)) = WindowColumn

HeaderRows == {i \in 1..Len(calls) : calls[i].kind = "start"}

DataRows == {i \in 1..Len(calls) : calls[i].kind = "tab"}

====
